---- MODULE Spec2Model ----
(***************************************************************************)
(* The static file server of grocky/resume (server.go): a process parses   *)
(* its -p flag, registers logMiddleware(http.FileServer(./docs)) on the    *)
(* default mux under "/", announces itself, binds ":"+port and serves.     *)
(* Strings the program takes apart (arguments, ports) are sequences of     *)
(* one-character strings; a URL path is the sequence of its segments, the  *)
(* text between its slashes: "/" is <<"">>, "/sub/" is <<"sub", "">>.      *)
(***************************************************************************)
EXTENDS Integers, Sequences, FiniteSets, TLC

VARIABLES
    argv,        \* argv[p]: the command-line arguments of process p (os.Args[1:])
    pc,          \* pc[p]: "start", "announced", "serving", "exited"
    port,        \* port[p]: *port, the value of the -p flag
    directory,   \* directory[p]: the local variable directory of main
    mux,         \* mux[p]: the patterns registered on http.DefaultServeMux
    addr,        \* addr[p]: the address handed to http.ListenAndServe
    binds,       \* binds[p]: how many times p asked the system for a listener
    out,         \* out[p]: the lines p wrote to its standard error, in order
    exitStatus,  \* exitStatus[p]: the status of os.Exit, NoExit while p runs
    listeners,   \* the pairs <<n, p>>: process p listens on TCP port n
    conn,        \* conn[c]: the connection c and the request being served on it
    now,         \* the clock read by time.Now
    accepted,    \* how many requests the servers have accepted so far
    entered,     \* entered[p]: how many times logMiddleware's handler was called
    returned,    \* returned[p]: how many times its downstream handler returned
    cli,         \* the run of the PDF compression program (compression/main.go)
    mk           \* the run of make and the job folders it works on (Makefile)

\* The variables of the file server.
serverVars == <<argv, pc, port, directory, mux, addr, binds, out, exitStatus,
                listeners, conn, now, accepted, entered, returned>>

vars == <<argv, pc, port, directory, mux, addr, binds, out, exitStatus,
          listeners, conn, now, accepted, entered, returned, cli, mk>>

(***************************************************************************)
(* Bounds of the model.                                                    *)
(***************************************************************************)
MaxRequests == 2
MaxTime == 1

\* Two instances of the server on one machine, and two client connections,
\* each carrying one request at a time.
Procs == {1, 2}
Conns == {1, 2}
NoExit == 0 - 1

(***************************************************************************)
(* Program constants.                                                      *)
(***************************************************************************)
DefaultPort == <<"9", "0", "0", "0">>
RootDirectory == "./docs"
RootPattern == "/"
ExitUsage == 2
ExitHelp == 0
\* A main that prints the error of ListenAndServe and returns.
ExitAfterPrint == ExitHelp
ExitFatal == 1
PrivilegedBelow == 1024
MaxPort == 65535

Digits == {"0", "1", "2", "3", "4", "5", "6", "7", "8", "9"}

DigitVal(ch) ==
    CASE ch = "0" -> 0 [] ch = "1" -> 1 [] ch = "2" -> 2 [] ch = "3" -> 3
      [] ch = "4" -> 4 [] ch = "5" -> 5 [] ch = "6" -> 6 [] ch = "7" -> 7
      [] ch = "8" -> 8 [] ch = "9" -> 9

Drop(s, n) == SubSeq(s, n + 1, Len(s))

(***************************************************************************)
(* The command lines the processes are started with.                       *)
(***************************************************************************)
Dash == "-"
FlagP == <<"-", "p">>
Port8080 == <<"8", "0", "8", "0">>
Port80 == <<"8", "0">>
PortBad == <<"x", "1">>

ArgvNone == <<>>                                     \* server
ArgvP8080 == <<FlagP, Port8080>>                     \* server -p 8080
ArgvPEq80 == << <<"-", "p", "=", "8", "0">> >>       \* server -p=80
ArgvBadPort == << <<"-", "-", "p">>, PortBad >>      \* server --p x1
ArgvUnknown == << <<"-", "x">> >>                    \* server -x
ArgvHelp == << <<"-", "h">> >>                       \* server -h
ArgvNoValue == << FlagP >>                           \* server -p
ArgvPositional == << <<"d">>, FlagP, Port8080 >>     \* server d -p 8080

ArgvSet ==
    { ArgvNone, ArgvP8080, ArgvPEq80, ArgvBadPort, ArgvUnknown, ArgvHelp,
      ArgvNoValue, ArgvPositional }

\* The runs: the command lines of the first and of the second instance.
Runs ==
    { <<ArgvNone, ArgvNone>>,            \* both on the default port
      <<ArgvP8080, ArgvUnknown>>,
      <<ArgvPositional, ArgvPEq80>>,
      <<ArgvPEq80, ArgvNone>>,
      <<ArgvBadPort, ArgvHelp>>,
      <<ArgvNoValue, ArgvUnknown>>,
      <<ArgvHelp, ArgvNoValue>> }

(***************************************************************************)
(* flag.Parse over the one flag main defines, -p (a string flag).  The     *)
(* result is the value the flag holds after parsing and how parsing ended: *)
(* "ok", "help" (-h or -help: usage, exit 0) or an error (usage, exit 2).  *)
(***************************************************************************)
DefinedFlags == { <<"p">> }
HelpFlags == { <<"h">>, <<"h", "e", "l", "p">> }

\* The index of the first "=" of name after its first character, 0 if none.
EqualsAt(name) ==
    LET at == { i \in 2..Len(name) : name[i] = "=" }
    IN  IF at = {} THEN 0 ELSE CHOOSE i \in at : \A j \in at : i <= j

RECURSIVE FlagParse(_, _)
FlagParse(args, value) ==
    IF Len(args) = 0 THEN [status |-> "ok", port |-> value]
    ELSE
      LET s == args[1] IN
      IF Len(s) < 2 \/ s[1] # Dash THEN [status |-> "ok", port |-> value]
      ELSE
        LET numMinuses == IF s[2] = Dash THEN 2 ELSE 1 IN
        IF numMinuses = 2 /\ Len(s) = 2 THEN [status |-> "ok", port |-> value]
        ELSE
          LET name0 == Drop(s, numMinuses) IN
          IF Len(name0) = 0 \/ name0[1] = Dash \/ name0[1] = "="
          THEN [status |-> "bad flag syntax", port |-> value]
          ELSE
            LET eq == EqualsAt(name0)
                name == IF eq > 0 THEN SubSeq(name0, 1, eq - 1) ELSE name0
                rest == Tail(args)
            IN
            IF name \notin DefinedFlags
            THEN IF name \in HelpFlags
                 THEN [status |-> "help", port |-> value]
                 ELSE [status |-> "flag provided but not defined", port |-> value]
            ELSE IF eq > 0 THEN FlagParse(rest, Drop(name0, eq))
            ELSE IF Len(rest) > 0 THEN FlagParse(Tail(rest), rest[1])
            ELSE [status |-> "flag needs an argument", port |-> value]

\* A main that serves the directory named by its first argument.
DirectoryFromArgs(args) ==
    IF Len(args) > 0 /\ args[1][1] # Dash THEN "d" ELSE RootDirectory

\* directory := "./docs": no argument reaches it.
DirectoryOf(args) == RootDirectory

\* A main that hands the bare port to ListenAndServe.
ListenAddrBare(p) == p

\* ":" + *port
ListenAddr(p) == <<":">> \o p

(***************************************************************************)
(* net.Listen("tcp", address): the port is the text after the last colon;  *)
(* a decimal port above 65535 and a name that is no service are errors.    *)
(* The command lines above use no service name and not port 0.             *)
(***************************************************************************)
LastColon(a) ==
    LET at == { i \in 1..Len(a) : a[i] = ":" }
    IN  IF at = {} THEN 0 ELSE CHOOSE i \in at : \A j \in at : i >= j

RECURSIVE Decimal(_)
Decimal(s) ==
    IF Len(s) = 0 THEN 0
    ELSE LET v == 10 * Decimal(SubSeq(s, 1, Len(s) - 1)) + DigitVal(s[Len(s)])
         IN  IF v > MaxPort THEN MaxPort + 1 ELSE v

InvalidPort == 0 - 1

\* The port number of an address, InvalidPort when it has none.
PortOf(a) ==
    LET c == LastColon(a)
        s == Drop(a, c)
    IN  IF c = 0 \/ Len(s) = 0 THEN InvalidPort
        ELSE IF \A i \in 1..Len(s) : s[i] \in Digits
        THEN (IF Decimal(s) > MaxPort THEN InvalidPort ELSE Decimal(s))
        ELSE InvalidPort

\* The processes run without the privilege to bind a port below 1024.
Root == FALSE

Bound(n) == \E l \in listeners : l[1] = n

\* A listener that shares a port already bound.
BindErrorShared(a) ==
    LET n == PortOf(a) IN
    IF n = InvalidPort THEN "unknown port"
    ELSE IF n < PrivilegedBelow /\ ~Root THEN "permission denied"
    ELSE ""

\* The error of binding address a, "" when the bind succeeds.
BindError(a) ==
    LET n == PortOf(a) IN
    IF n = InvalidPort THEN "unknown port"
    ELSE IF n < PrivilegedBelow /\ ~Root THEN "permission denied"
    ELSE IF Bound(n) THEN "address already in use"
    ELSE ""

(***************************************************************************)
(* The served tree ./docs, by path below the root, with the modification   *)
(* time of each entry in seconds, and the requests the clients send:       *)
(* method, URL path (as received), Range and If-Modified-Since headers.    *)
(***************************************************************************)
IndexPage == "index.html"

DocsTree ==
    { [path |-> <<>>,                    kind |-> "dir",  readable |-> TRUE,  mtime |-> 2],
      [path |-> <<IndexPage>>,           kind |-> "file", readable |-> TRUE,  mtime |-> 2],
      [path |-> <<"sub">>,               kind |-> "dir",  readable |-> TRUE,  mtime |-> 2],
      [path |-> <<"sub", "page.html">>,  kind |-> "file", readable |-> TRUE,  mtime |-> 2],
      [path |-> <<"sub", "about.html">>, kind |-> "file", readable |-> TRUE,  mtime |-> 2],
      [path |-> <<"sub", "img">>,        kind |-> "dir",  readable |-> TRUE,  mtime |-> 2],
      [path |-> <<"secret">>,            kind |-> "file", readable |-> FALSE, mtime |-> 2] }

\* The names of the tree in the order of Go's string comparison.
NameOrder == <<"about.html", "img", "index.html", "page.html", "secret", "sub">>

\* No If-Modified-Since header.
NoHeader == 0 - 1

Paths ==
    { <<"">>,                           \* /
      <<"sub", "page.html">>,           \* /sub/page.html
      <<"missing">>,                    \* /missing
      <<"secret">>,                     \* /secret
      <<"sub", "", "page.html">>,       \* /sub//page.html
      <<"..", "secret">> }              \* /../secret

Requests ==
    { [method |-> "GET", path |-> u, range |-> "none", ims |-> NoHeader] : u \in Paths }
    \cup { [method |-> "POST", path |-> <<"sub", "page.html">>, range |-> "none",
            ims |-> NoHeader],
           [method |-> "GET", path |-> <<"sub", "page.html">>, range |-> "malformed",
            ims |-> NoHeader] }

\* The requests of a client that fetches the pages of the site: the index,
\* a directory without one, with and without its slash, a page with no
\* date, an earlier, the same and a later date than the page's, a page and
\* an index page that do not exist, the directories, the index page by its
\* name and a page with a slash after it, each with the date of the tree,
\* and a POST to a page.
SiteRequests ==
    { [method |-> "GET", path |-> u, range |-> "none", ims |-> NoHeader] :
          u \in { <<"">>, <<"sub", "">>, <<"sub">>, <<"sub", "page.html">>,
                  <<"missing">>, <<"missing", IndexPage>> } }
    \cup { [method |-> "GET", path |-> <<"sub", "page.html">>, range |-> "none",
            ims |-> t] : t \in {1, 2, 3} }
    \cup { [method |-> "GET", path |-> u, range |-> "none", ims |-> 2] :
             u \in { <<"">>, <<"sub", "">>, <<IndexPage>>,
                     <<"sub", "page.html", "">> } }
    \cup { [method |-> "POST", path |-> <<"sub", "page.html">>, range |-> "none",
            ims |-> NoHeader] }

Last(s) == s[Len(s)]

\* path.Clean of a rooted path: the names left once empty and "." segments
\* are dropped and each ".." has removed the name before it (none at the root).
RECURSIVE CleanNames(_, _)
CleanNames(segs, acc) ==
    IF Len(segs) = 0 THEN acc
    ELSE LET g == segs[1] IN
         IF g = "" \/ g = "." THEN CleanNames(Tail(segs), acc)
         ELSE IF g = ".."
         THEN CleanNames(Tail(segs),
                         IF Len(acc) = 0 THEN acc ELSE SubSeq(acc, 1, Len(acc) - 1))
         ELSE CleanNames(Tail(segs), Append(acc, g))

\* net/http cleanPath: path.Clean, with the trailing slash put back.
CleanPath(segs) ==
    LET ns == CleanNames(segs, <<>>) IN
    IF ns = <<>> THEN <<"">>
    ELSE IF Last(segs) = "" THEN Append(ns, "") ELSE ns

(***************************************************************************)
(* http.DefaultServeMux with the patterns registered on it.  A request     *)
(* whose path is not in canonical form is answered by the mux itself with  *)
(* a redirect to the cleaned path; otherwise "/" matches every path and    *)
(* the handler registered for it, logMiddleware(fs), is called.            *)
(***************************************************************************)
MuxHandler(patterns, req) ==
    IF req.method # "CONNECT" /\ CleanPath(req.path) # req.path THEN "redirect"
    ELSE IF RootPattern \in patterns THEN "logMiddleware"
    ELSE "notfound"

(***************************************************************************)
(* http.FileServer(http.Dir(directory)): the response to a request.        *)
(***************************************************************************)
Entry(names) == { e \in DocsTree : e.path = names }

\* The error of opening names under the root, "" when it opens.
OpenError(names) ==
    IF Entry(names) = {} THEN "not exist"
    ELSE IF \E e \in Entry(names) : ~e.readable THEN "permission"
    ELSE ""

KindOf(names) == (CHOOSE e \in Entry(names) : TRUE).kind

Response(status, body) == [status |-> status, body |-> body]

Mtime(names) == (CHOOSE e \in Entry(names) : TRUE).mtime

\* A check that takes the file for modified at the very second of the date.
NotModifiedStrict(req, mtime) ==
    /\ req.method \in {"GET", "HEAD"}
    /\ req.ims # NoHeader
    /\ mtime < req.ims

\* http.checkIfModifiedSince: the header counts for GET and HEAD only, and
\* the file is not modified when its time is not after the header's.
NotModified(req, mtime) ==
    /\ req.method \in {"GET", "HEAD"}
    /\ req.ims # NoHeader
    /\ mtime <= req.ims

\* http.serveContent: the preconditions first, a 304 with no body when the
\* file is not modified; then a Range header that does not parse is
\* answered 416; otherwise the content, whatever the method.
ServeContent(req, names) ==
    IF NotModified(req, Mtime(names)) THEN Response(304, <<>>)
    ELSE IF req.range = "malformed" THEN Response(416, <<"error">>)
    ELSE Response(200, <<"file", names>>)

\* The names of the entries of directory names.
Children(names) ==
    { e.path[Len(e.path)] :
         e \in { f \in DocsTree : /\ Len(f.path) = Len(names) + 1
                                 /\ SubSeq(f.path, 1, Len(names)) = names } }

Rank(n) == CHOOSE i \in 1..Len(NameOrder) : NameOrder[i] = n

\* A listing from the last name to the first.
RECURSIVE SortDescending(_)
SortDescending(S) ==
    IF S = {} THEN <<>>
    ELSE LET m == CHOOSE x \in S : \A y \in S : Rank(y) <= Rank(x)
         IN  <<m>> \o SortDescending(S \ {m})

\* http.dirList: sort.Slice(dirs, ...) by name.
RECURSIVE SortByName(_)
SortByName(S) ==
    IF S = {} THEN <<>>
    ELSE LET m == CHOOSE x \in S : \A y \in S : Rank(x) <= Rank(y)
         IN  <<m>> \o SortByName(S \ {m})

\* http.dirList: the entries of the directory, whatever order the
\* directory is read in, sorted by name.
DirList(names) == <<"listing", names, SortByName(Children(names))>>

\* http.serveFile.
ServeFile(req) ==
    LET upath == req.path
        name == CleanNames(upath, <<>>)
    IN
    IF Last(upath) = IndexPage THEN Response(301, <<"redirect">>)
    ELSE IF OpenError(name) = "not exist" THEN Response(404, <<"error">>)
    ELSE IF OpenError(name) = "permission" THEN Response(403, <<"error">>)
    ELSE IF KindOf(name) = "dir"
    THEN IF Last(upath) # "" THEN Response(301, <<"redirect">>)
         ELSE IF OpenError(Append(name, IndexPage)) = ""
         THEN ServeContent(req, Append(name, IndexPage))
         ELSE IF NotModified(req, Mtime(name)) THEN Response(304, <<>>)
         ELSE Response(200, DirList(name))
    ELSE IF Last(upath) = "" THEN Response(301, <<"redirect">>)
    ELSE ServeContent(req, name)

\* A file server that answers a path that names nothing with the index
\* page of the site.
FileServerFallback(req) ==
    IF OpenError(CleanNames(req.path, <<>>)) = "not exist"
    THEN Response(200, <<"file", <<IndexPage>> >>)
    ELSE ServeFile(req)

\* The handler of http.FileServer: serveFile of the request's path.
FileServer(req) == ServeFile(req)

NoResponse == [status |-> 0, body |-> <<>>]
Idle == [st |-> "idle"]
Active(c) == conn[c] # Idle

\* The file server before its processes start.
ServerInit ==
    /\ pc = [p \in Procs |-> "start"]
    /\ port = [p \in Procs |-> <<>>]
    /\ directory = [p \in Procs |-> ""]
    /\ mux = [p \in Procs |-> {}]
    /\ addr = [p \in Procs |-> <<>>]
    /\ binds = [p \in Procs |-> 0]
    /\ out = [p \in Procs |-> <<>>]
    /\ exitStatus = [p \in Procs |-> NoExit]
    /\ listeners = {}
    /\ conn = [c \in Conns |-> Idle]
    /\ now = 0
    /\ accepted = 0
    /\ entered = [p \in Procs |-> 0]
    /\ returned = [p \in Procs |-> 0]

\* A program that is not run.
NotRun == [pc |-> "off"]

Init ==
    /\ cli = NotRun
    /\ mk = NotRun
    /\ argv \in Runs
    /\ ServerInit

(***************************************************************************)
(* main, lines 20-27: define and parse the flag, build the handler chain,  *)
(* register it for "/", log the startup line.  flag.Parse ends the process *)
(* itself when the command line is rejected or asks for help.              *)
(***************************************************************************)
Main(p) ==
    /\ pc[p] = "start"
    /\ LET r == FlagParse(argv[p], DefaultPort) IN
         /\ port' = [port EXCEPT ![p] = r.port]
         /\ directory' = [directory EXCEPT ![p] = DirectoryOf(argv[p])]
         /\ IF r.status = "ok"
            THEN /\ mux' = [mux EXCEPT ![p] = {RootPattern}]
                 /\ out' = [out EXCEPT ![p] =
                        Append(@, <<"Serving", DirectoryOf(argv[p]), r.port>>)]
                 /\ pc' = [pc EXCEPT ![p] = "announced"]
                 /\ UNCHANGED exitStatus
            ELSE /\ out' = [out EXCEPT ![p] =
                        IF r.status = "help" THEN Append(@, <<"Usage">>)
                        ELSE Append(Append(@, <<"FlagError", r.status>>), <<"Usage">>)]
                 /\ exitStatus' = [exitStatus EXCEPT ![p] =
                        IF r.status = "help" THEN ExitHelp ELSE ExitUsage]
                 /\ pc' = [pc EXCEPT ![p] = "exited"]
                 /\ UNCHANGED mux
    /\ UNCHANGED <<cli, mk, argv, addr, binds, listeners, conn, now, accepted, entered,
                   returned>>

\* A main that logs the bind error and tries the bind again.
ListenRetry(p) ==
    /\ pc[p] = "announced"
    /\ LET a == ListenAddr(port[p])
           err == BindError(a)
       IN  /\ addr' = [addr EXCEPT ![p] = a]
           /\ binds' = [binds EXCEPT ![p] = @ + 1]
           /\ IF err = ""
              THEN /\ listeners' = listeners \cup { <<PortOf(a), p>> }
                   /\ pc' = [pc EXCEPT ![p] = "serving"]
                   /\ UNCHANGED out
              ELSE /\ out' = [out EXCEPT ![p] = Append(@, <<"Fatal", err>>)]
                   /\ UNCHANGED <<pc, listeners>>
    /\ UNCHANGED <<cli, mk, argv, port, directory, mux, conn, now, accepted, entered,
                   returned, exitStatus>>

\* A main that logs the startup line again once the address is bound.
ListenThenAnnounce(p) ==
    /\ pc[p] = "announced"
    /\ LET a == ListenAddr(port[p])
           err == BindError(a)
       IN  /\ addr' = [addr EXCEPT ![p] = a]
           /\ binds' = [binds EXCEPT ![p] = @ + 1]
           /\ IF err = ""
              THEN /\ listeners' = listeners \cup { <<PortOf(a), p>> }
                   /\ pc' = [pc EXCEPT ![p] = "serving"]
                   /\ out' = [out EXCEPT ![p] =
                                 Append(@, <<"Serving", directory[p], port[p]>>)]
                   /\ UNCHANGED exitStatus
              ELSE /\ out' = [out EXCEPT ![p] = Append(@, <<"Fatal", err>>)]
                   /\ exitStatus' = [exitStatus EXCEPT ![p] = ExitFatal]
                   /\ pc' = [pc EXCEPT ![p] = "exited"]
                   /\ UNCHANGED listeners
    /\ UNCHANGED <<cli, mk, argv, port, directory, mux, conn, now, accepted, entered,
                   returned>>

(***************************************************************************)
(* main, line 28: http.ListenAndServe(":"+*port, nil) binds the address.   *)
(* On success the call does not return and the process serves; on failure  *)
(* it returns the error and log.Fatal prints it and exits with status 1.   *)
(***************************************************************************)
Listen(p) ==
    /\ pc[p] = "announced"
    /\ LET a == ListenAddr(port[p])
           err == BindError(a)
       IN  /\ addr' = [addr EXCEPT ![p] = a]
           /\ binds' = [binds EXCEPT ![p] = @ + 1]
           /\ IF err = ""
              THEN /\ listeners' = listeners \cup { <<PortOf(a), p>> }
                   /\ pc' = [pc EXCEPT ![p] = "serving"]
                   /\ UNCHANGED <<out, exitStatus>>
              ELSE /\ out' = [out EXCEPT ![p] = Append(@, <<"Fatal", err>>)]
                   /\ exitStatus' = [exitStatus EXCEPT ![p] = ExitFatal]
                   /\ pc' = [pc EXCEPT ![p] = "exited"]
                   /\ UNCHANGED listeners
    /\ UNCHANGED <<cli, mk, argv, port, directory, mux, conn, now, accepted, entered,
                   returned>>

\* time.Millisecond, in nanoseconds, the unit of time.Duration.
Millisecond == 1000000

\* Line 14: float64(d) / float64(time.Millisecond), the duration d in
\* milliseconds, kept as the fraction <<numerator, denominator>>.
Millis(d) == <<d, Millisecond>>

(***************************************************************************)
(* The server accepts a connection, reads a request and routes it through  *)
(* the default mux.  Routed to logMiddleware's handler, the request starts *)
(* there: start := time.Now() (line 12), then h.ServeHTTP(w, r) is entered *)
(* (line 13).  Each connection is served by a task of its own.  seq is the *)
(* request's place in the order of arrival; ret and duration are set when  *)
(* the downstream handler returns.  The steps of an instance that starts   *)
(* touch nothing a request touches, so they commute with the steps of the  *)
(* requests; the model takes them first, and the clients connect once each *)
(* instance is serving or has exited.                                      *)
(***************************************************************************)
Serve(c, p, req, limit) ==
    /\ pc[p] = "serving"
    /\ \A q \in Procs : pc[q] \in {"serving", "exited"}
    /\ \E l \in listeners : l[2] = p
    /\ conn[c] = Idle
    /\ \A d \in Conns : d < c => conn[d] # Idle
    /\ accepted < limit
    /\ accepted' = accepted + 1
    /\ LET h == MuxHandler(mux[p], req) IN
       conn' = [conn EXCEPT ![c] =
          IF h = "logMiddleware"
          THEN [st |-> "handling", srv |-> p, req |-> req, via |-> h,
                seq |-> accepted + 1, start |-> now, ret |-> now,
                duration |-> Millis(0), resp |-> NoResponse, nlog |-> 0]
          ELSE [st |-> "done", srv |-> p, req |-> req, via |-> h,
                seq |-> accepted + 1, start |-> 0, ret |-> 0,
                duration |-> Millis(0), nlog |-> 0,
                resp |-> IF h = "redirect" THEN Response(301, <<"redirect">>)
                         ELSE Response(404, <<"error">>)]]
    /\ entered' = [entered EXCEPT ![p] =
                      IF MuxHandler(mux[p], req) = "logMiddleware" THEN @ + 1 ELSE @]
    /\ UNCHANGED <<cli, mk, argv, pc, port, directory, mux, addr, binds, out,
                   exitStatus, listeners, now, returned>>

\* A server that handles a request in its accept loop: it accepts no
\* connection while a request of its own is in flight.
AcceptSerial(c, p, req) ==
    /\ \A d \in Conns :
          Active(d) /\ conn[d].srv = p => conn[d].st \notin {"handling", "returned"}
    /\ Serve(c, p, req, MaxRequests)

\* Any request may arrive, up to the bound on their number.
Accept(c, p, req) == Serve(c, p, req, MaxRequests)

\* A logMiddleware that hands the downstream handler a request without
\* the headers of the one it received.
DownstreamBare(req) == [req EXCEPT !.range = "none"]

\* Line 13: h.ServeHTTP(w, r) hands the downstream handler the request r
\* that logMiddleware received, and the response writer w with it.
Downstream(req) == req

\* Line 13 returns: the file server has written its response.  Line 14
\* follows at once, with no point of suspension in between: the clock is
\* read and the duration computed.
HandlerReturn(c) ==
    /\ conn[c].st = "handling"
    /\ conn' = [conn EXCEPT ![c].st = "returned",
                            ![c].resp = FileServer(Downstream(conn[c].req)),
                            ![c].ret = now,
                            ![c].duration = Millis(now - conn[c].start)]
    /\ returned' = [returned EXCEPT ![conn[c].srv] = @ + 1]
    /\ UNCHANGED <<cli, mk, argv, pc, port, directory, mux, addr, binds, out,
                   exitStatus, listeners, now, accepted, entered>>

\* A logMiddleware that logs in a deferred call, which runs on a panic too.
HandlerPanicLogged(c) ==
    /\ conn[c].st = "handling"
    /\ conn' = [conn EXCEPT ![c].st = "aborted", ![c].nlog = @ + 1]
    /\ out' = [out EXCEPT ![conn[c].srv] =
                  Append(Append(@, <<"Request", conn[c].req.method, conn[c].req.path,
                                     Millis(now - conn[c].start)>>), <<"Panic">>)]
    /\ UNCHANGED <<cli, mk, argv, pc, port, directory, mux, addr, binds,
                   exitStatus, listeners, now, accepted, entered, returned>>

\* A server without net/http's recovery: the panic ends the process.
HandlerPanicFatal(c) ==
    /\ conn[c].st = "handling"
    /\ conn' = [d \in Conns |->
                  IF Active(d) /\ conn[d].srv = conn[c].srv
                  THEN [conn[d] EXCEPT !.st = "aborted"] ELSE conn[d]]
    /\ out' = [out EXCEPT ![conn[c].srv] = Append(@, <<"Panic">>)]
    /\ pc' = [pc EXCEPT ![conn[c].srv] = "exited"]
    /\ exitStatus' = [exitStatus EXCEPT ![conn[c].srv] = ExitUsage]
    /\ listeners' = { l \in listeners : l[2] # conn[c].srv }
    /\ UNCHANGED <<cli, mk, argv, port, directory, mux, addr, binds, now, accepted,
                   entered, returned>>

\* Line 13 panics: the panic unwinds the handler; net/http's connection task
\* recovers it, logs it and closes the connection.  The process goes on.
HandlerPanic(c) ==
    /\ conn[c].st = "handling"
    /\ conn' = [conn EXCEPT ![c].st = "aborted"]
    /\ out' = [out EXCEPT ![conn[c].srv] = Append(@, <<"Panic">>)]
    /\ UNCHANGED <<cli, mk, argv, pc, port, directory, mux, addr, binds,
                   exitStatus, listeners, now, accepted, entered, returned>>

\* A line whose duration is measured when the line is written.
RequestLineLate(c) ==
    <<"Request", conn[c].req.method, conn[c].req.path, Millis(now - conn[c].start)>>

\* A logMiddleware that keeps the request in a variable its handlers
\* share: the line has the method and URI of the request that arrived last.
RequestLineOfLatest(c) ==
    LET d == CHOOSE e \in Conns :
                 /\ Active(e) /\ conn[e].srv = conn[c].srv
                 /\ \A f \in Conns : Active(f) /\ conn[f].srv = conn[c].srv
                                          => conn[f].seq <= conn[e].seq
    IN  <<"Request", conn[d].req.method, conn[d].req.path, conn[c].duration>>

\* The line logMiddleware prints on line 15: method, request URI and the
\* duration of line 14.
RequestLine(c) ==
    <<"Request", conn[c].req.method, conn[c].req.path, conn[c].duration>>

\* A logMiddleware that logs only the requests answered without an error.
LogRequestUnlessError(c) ==
    /\ conn[c].st = "returned"
    /\ out' = [out EXCEPT ![conn[c].srv] =
                  IF conn[c].resp.status >= 400 THEN @
                  ELSE Append(@, RequestLine(c))]
    /\ conn' = [conn EXCEPT ![c].st = "done",
                            ![c].nlog = IF conn[c].resp.status >= 400 THEN @ ELSE @ + 1]
    /\ UNCHANGED <<cli, mk, argv, pc, port, directory, mux, addr, binds,
                   exitStatus, listeners, now, accepted, entered, returned>>

\* A logMiddleware that logs the request twice.
LogRequestTwice(c) ==
    /\ conn[c].st = "returned"
    /\ out' = [out EXCEPT ![conn[c].srv] =
                  Append(Append(@, RequestLine(c)),
                         RequestLine(c))]
    /\ conn' = [conn EXCEPT ![c].st = "done", ![c].nlog = @ + 2]
    /\ UNCHANGED <<cli, mk, argv, pc, port, directory, mux, addr, binds,
                   exitStatus, listeners, now, accepted, entered, returned>>

\* A logMiddleware that writes its line to the sink in two writes, the
\* method and URI first and the duration after them.
LogRequestInPieces(c) ==
    /\ conn[c].st = "returned"
    /\ out' = [out EXCEPT ![conn[c].srv] =
                  Append(Append(@, <<"Request", conn[c].req.method, conn[c].req.path>>),
                         <<conn[c].duration>>)]
    /\ conn' = [conn EXCEPT ![c].st = "done", ![c].nlog = @ + 1]
    /\ UNCHANGED <<cli, mk, argv, pc, port, directory, mux, addr, binds,
                   exitStatus, listeners, now, accepted, entered, returned>>

\* A logMiddleware that writes the lines in the order of arrival: a line
\* waits for the lines of the requests that arrived before it.
LogRequestInArrivalOrder(c) ==
    /\ conn[c].st = "returned"
    /\ \A d \in Conns :
          Active(d) /\ conn[d].srv = conn[c].srv /\ conn[d].seq < conn[c].seq
              => conn[d].st \notin {"handling", "returned"}
    /\ out' = [out EXCEPT ![conn[c].srv] = Append(@, RequestLine(c))]
    /\ conn' = [conn EXCEPT ![c].st = "done", ![c].nlog = @ + 1]
    /\ UNCHANGED <<cli, mk, argv, pc, port, directory, mux, addr, binds,
                   exitStatus, listeners, now, accepted, entered, returned>>

\* Line 15: log.Printf writes the line, once it has the logger to itself.
\* The logger formats the line into a buffer of its own and hands it to
\* the sink in one write, under its mutex.
LogRequest(c) ==
    /\ conn[c].st = "returned"
    /\ out' = [out EXCEPT ![conn[c].srv] =
                  Append(@, RequestLine(c))]
    /\ conn' = [conn EXCEPT ![c].st = "done", ![c].nlog = @ + 1]
    /\ UNCHANGED <<cli, mk, argv, pc, port, directory, mux, addr, binds,
                   exitStatus, listeners, now, accepted, entered, returned>>

\* The connection ends and its task with it.
Close(c) ==
    /\ conn[c].st \in {"done", "aborted"}
    /\ conn' = [conn EXCEPT ![c] = Idle]
    /\ UNCHANGED <<cli, mk, argv, pc, port, directory, mux, addr, binds, out,
                   exitStatus, listeners, now, accepted, entered, returned>>

\* Time passes.  Only a request in its downstream handler has the clock
\* still to read (line 14), so the model advances it only while there is
\* one.
Tick ==
    /\ now < MaxTime
    /\ \E c \in Conns : conn[c].st = "handling"
    /\ now' = now + 1
    /\ UNCHANGED <<cli, mk, argv, pc, port, directory, mux, addr, binds, out,
                   exitStatus, listeners, conn, accepted, entered, returned>>

Next ==
    \/ \E p \in Procs : Main(p)
    \/ \E p \in Procs : Listen(p)
    \/ \E c \in Conns, p \in Procs, req \in Requests : Accept(c, p, req)
    \/ \E c \in Conns : HandlerReturn(c)
    \/ \E c \in Conns : HandlerPanic(c)
    \/ \E c \in Conns : LogRequest(c)
    \/ \E c \in Conns : Close(c)
    \/ Tick

Spec == Init /\ [][Next]_vars

(***************************************************************************)
(* The site served to a client: one server started with -p 8080 on the     *)
(* tree above, a client that sends as many requests as the scenario of the *)
(* specification has (GET /, GET /sub/page.html, GET /missing), each any   *)
(* of SiteRequests, and a file server that does not panic.                 *)
(***************************************************************************)
Scenario ==
    << [method |-> "GET", path |-> <<"">>, range |-> "none", ims |-> NoHeader],
       [method |-> "GET", path |-> <<"sub", "page.html">>, range |-> "none",
        ims |-> NoHeader],
       [method |-> "GET", path |-> <<"missing">>, range |-> "none", ims |-> NoHeader] >>

InitSite == Init /\ argv = <<ArgvP8080, ArgvUnknown>>

AcceptSite(c, p, req) == Serve(c, p, req, Len(Scenario))

NextSite ==
    \/ \E p \in Procs : Main(p)
    \/ \E p \in Procs : Listen(p)
    \/ \E c \in Conns, p \in Procs, req \in SiteRequests : AcceptSite(c, p, req)
    \/ \E c \in Conns : HandlerReturn(c)
    \/ \E c \in Conns : LogRequest(c)
    \/ \E c \in Conns : Close(c)
    \/ Tick

SpecSite == InitSite /\ [][NextSite]_vars

(***************************************************************************)
(* The PDF compression program, compression/main.go.  A run is given by    *)
(* os.Args and by what it finds: whether the license key is accepted, what *)
(* the input path names, whether the output path can be written and        *)
(* whether the output is still there when it is looked at.  cli.out has    *)
(* the lines the run prints, cli.steps the calls of the pipeline it made.  *)
(***************************************************************************)
Program == "compress"

\* os.Args with no, one, two and three arguments after the program's name.
CliArgs ==
    { <<Program>>, <<Program, "in.pdf">>, <<Program, "in.pdf", "out.pdf">>,
      <<Program, "in.pdf", "out.pdf", "more">> }

\* What inputPath names: nothing, a file that cannot be read, a file that is
\* no PDF, a PDF the reader parses and cannot turn into a writer, a PDF.
InputKinds == {"missing", "unreadable", "garbage", "unconvertible", "pdf"}

CliRuns ==
    { [args |-> a, licensed |-> l, input |-> k, outWritable |-> w, outKept |-> o,
       pc |-> "init", out |-> <<>>, steps |-> <<>>, exit |-> NoExit,
       inputPath |-> "", outputPath |-> "", written |-> FALSE] :
         a \in CliArgs, l \in BOOLEAN, k \in InputKinds, w \in BOOLEAN,
         o \in BOOLEAN }

\* The status of a Go program that ends in a panic, and of one that ends
\* by returning from main.
ExitPanic == 2
ExitOK == 0

\* args[i] of Go, whose indices start at 0.
GoIndex(a, i) == a[i + 1]

\* The run after a panic: the panic is printed and the program ends.
CliPanic(run, what) ==
    [run EXCEPT !.out = Append(@, <<"Panic", what>>), !.exit = ExitPanic,
                !.pc = "exited"]

\* The run after log.Fatalf: the error is logged and the program exits 1.
CliFatal(run, what) ==
    [run EXCEPT !.out = Append(@, <<"Fatal", what>>), !.exit = ExitFatal,
                !.pc = "exited"]

\* The run with one more call of the pipeline made.
CliCalled(run, step) == [run EXCEPT !.steps = Append(@, step)]

\* Lines 13-18, init: the license key is set; an error panics.
CliLicense ==
    /\ cli.pc = "init"
    /\ cli' = IF cli.licensed THEN [cli EXCEPT !.pc = "main"]
              ELSE CliPanic(cli, "license")
    /\ UNCHANGED <<serverVars, mk>>

\* A main that exits after the usage line.
CliUsageExit ==
    /\ cli.pc = "main"
    /\ cli' = IF Len(cli.args) < 3
              THEN [cli EXCEPT !.out = Append(@, <<"Usage", GoIndex(cli.args, 0)>>),
                               !.exit = ExitFatal, !.pc = "exited"]
              ELSE [cli EXCEPT !.pc = "args"]
    /\ UNCHANGED <<serverVars, mk>>

\* Lines 22-25: with fewer than three elements in os.Args the usage line
\* is printed; main goes on in either case.
CliUsage ==
    /\ cli.pc = "main"
    /\ cli' = IF Len(cli.args) < 3
              THEN [cli EXCEPT !.out = Append(@, <<"Usage", GoIndex(cli.args, 0)>>),
                               !.pc = "args"]
              ELSE [cli EXCEPT !.pc = "args"]
    /\ UNCHANGED <<serverVars, mk>>

\* Lines 27-30: args[1] and args[2] are read, an index past the end of
\* os.Args panics; then the start of the optimization is logged.
CliReadArgs ==
    /\ cli.pc = "args"
    /\ cli' = IF Len(cli.args) <= 1 THEN CliPanic(cli, "index out of range [1]")
              ELSE IF Len(cli.args) <= 2
              THEN CliPanic([cli EXCEPT !.inputPath = GoIndex(cli.args, 1)],
                            "index out of range [2]")
              ELSE [cli EXCEPT !.inputPath = GoIndex(cli.args, 1),
                               !.outputPath = GoIndex(cli.args, 2),
                               !.out = Append(@, <<"Starting", GoIndex(cli.args, 1),
                                                   GoIndex(cli.args, 2)>>),
                               !.pc = "stat"]
    /\ UNCHANGED <<serverVars, mk>>

\* Lines 32-35: os.Stat(inputPath).
CliStatInput ==
    /\ cli.pc = "stat"
    /\ cli' = IF cli.input = "missing"
              THEN CliFatal(CliCalled(cli, "stat input"), "Error accessing input file")
              ELSE [CliCalled(cli, "stat input") EXCEPT !.pc = "open"]
    /\ UNCHANGED <<serverVars, mk>>

\* Lines 37-41: os.Open(inputPath).
CliOpen ==
    /\ cli.pc = "open"
    /\ cli' = IF cli.input \in {"missing", "unreadable"}
              THEN CliFatal(CliCalled(cli, "open input"), "Error opening input file")
              ELSE [CliCalled(cli, "open input") EXCEPT !.pc = "parse"]
    /\ UNCHANGED <<serverVars, mk>>

\* A main that logs the reader's error with log.Printf and goes on.
CliNewReaderLenient ==
    /\ cli.pc = "parse"
    /\ cli' = IF cli.input \notin {"unconvertible", "pdf"}
              THEN [CliCalled(cli, "parse") EXCEPT
                       !.out = Append(@, <<"Fatal", "Error creating PDF reader">>),
                       !.pc = "writer"]
              ELSE [CliCalled(cli, "parse") EXCEPT !.pc = "writer"]
    /\ UNCHANGED <<serverVars, mk>>

\* Lines 43-46: model.NewPdfReader(inputFile) parses the file.
CliNewReader ==
    /\ cli.pc = "parse"
    /\ cli' = IF cli.input \notin {"unconvertible", "pdf"}
              THEN CliFatal(CliCalled(cli, "parse"), "Error creating PDF reader")
              ELSE [CliCalled(cli, "parse") EXCEPT !.pc = "writer"]
    /\ UNCHANGED <<serverVars, mk>>

\* Lines 48-62: reader.ToWriter(nil), and the optimizer set on the writer.
CliToWriter ==
    /\ cli.pc = "writer"
    /\ cli' = IF cli.input # "pdf"
              THEN CliFatal(CliCalled(cli, "create writer"), "Error creating PDF writer")
              ELSE [CliCalled(cli, "create writer") EXCEPT !.pc = "write"]
    /\ UNCHANGED <<serverVars, mk>>

\* Lines 64-67: pdfWriter.WriteToFile(outputPath).
CliWriteToFile ==
    /\ cli.pc = "write"
    /\ cli' = IF ~cli.outWritable
              THEN CliFatal(CliCalled(cli, "write output"), "Error writing output file")
              ELSE [CliCalled(cli, "write output") EXCEPT !.written = TRUE,
                                                           !.pc = "statout"]
    /\ UNCHANGED <<serverVars, mk>>

\* Lines 69-72: os.Stat(outputPath).
CliStatOutput ==
    /\ cli.pc = "statout"
    /\ cli' = IF ~cli.outKept
              THEN CliFatal(CliCalled(cli, "stat output"), "Error accessing output file")
              ELSE [CliCalled(cli, "stat output") EXCEPT !.pc = "summary"]
    /\ UNCHANGED <<serverVars, mk>>

\* Lines 74-81: the summary is printed and main returns.
CliSummary ==
    /\ cli.pc = "summary"
    /\ cli' = [cli EXCEPT
                  !.out = @ \o << <<"Optimization complete">>,
                                  <<"Input file", cli.inputPath>>,
                                  <<"Output file", cli.outputPath>> >>,
                  !.exit = ExitOK, !.pc = "exited"]
    /\ UNCHANGED <<serverVars, mk>>

InitPdf ==
    /\ cli \in CliRuns
    /\ mk = NotRun
    /\ argv = <<ArgvNone, ArgvNone>>
    /\ ServerInit

NextPdf ==
    \/ CliLicense
    \/ CliUsage
    \/ CliReadArgs
    \/ CliStatInput
    \/ CliOpen
    \/ CliNewReader
    \/ CliToWriter
    \/ CliWriteToFile
    \/ CliStatOutput
    \/ CliSummary

SpecPdf == InitPdf /\ [][NextPdf]_vars

(***************************************************************************)
(* The Makefile's targets resume, job-init, job-from-pdf and                *)
(* resume-from-pdf.  make runs                                             *)
(* the lines of a recipe one after the other, each in a shell of its own,  *)
(* and gives up at the first line whose shell ends with a status that is   *)
(* not zero; it then ends with status 2 itself.  mk.fs is the job folder   *)
(* jobs/<JOB> of the one job name of the model, with the virtual           *)
(* environment and the PDF of the resume; the templates are in place.  The *)
(* outcomes of the tools (pip, tools/generate.py, latexmk and              *)
(* tools/pdf_job_extractor.py) are inputs of the steps that run them.      *)
(***************************************************************************)
MaxRuns == 3

JobName == "2024-01-15_reddit_engineer"
JobValues == {"", JobName}
PdfValues == {"", "posting.pdf", "nofile.pdf"}
Goals == {"resume", "job-init", "job-from-pdf", "resume-from-pdf"}

\* The status of the shell after "exit 1", and the status make ends with
\* when a line of a recipe has failed.
ShellExit == 1
MakeError == 2

\* The statuses a tool that fails can end with.
ToolErrors == {1, 2}

NoFolder ==
    [dir |-> FALSE, generated |-> FALSE, jd |-> "absent", pv |-> "absent",
     tex |-> FALSE, pdf |-> FALSE, venv |-> FALSE]

\* The folder job-init leaves, with the description edited by its user.
EditedFolder ==
    [dir |-> TRUE, generated |-> TRUE, jd |-> "edited", pv |-> "template",
     tex |-> FALSE, pdf |-> FALSE, venv |-> FALSE]

MkStarts ==
    { [pc |-> "idle", fs |-> f, before |-> f, goal |-> "", JOB |-> "", PDF |-> "",
       EXTRACTED_JOB |-> "", nested |-> FALSE, piped |-> FALSE, pipe |-> <<>>,
       out |-> <<>>, status |-> 0,
       exit |-> NoExit, subExit |-> NoExit, runs |-> 0] :
          f \in {NoFolder, EditedFolder} }

\* The first line of the recipe of a goal.
FirstLine(goal) ==
    IF goal = "resume" THEN "resume:46"
    ELSE IF goal = "job-init" THEN "job-init:73"
    ELSE IF goal = "job-from-pdf" THEN "job-from-pdf:98"
    ELSE "resume-from-pdf:120"

\* make <goal> JOB=<job> PDF=<pdf> is run.
MkStart(goal, job, pdf) ==
    /\ mk.pc = "idle"
    /\ mk.runs < MaxRuns
    /\ mk' = [mk EXCEPT !.pc = FirstLine(goal), !.goal = goal, !.JOB = job,
                        !.PDF = pdf, !.EXTRACTED_JOB = "", !.nested = FALSE,
                        !.piped = FALSE, !.pipe = <<>>, !.before = mk.fs, !.out = <<>>, !.status = 0,
                        !.exit = NoExit, !.subExit = NoExit, !.runs = @ + 1]
    /\ UNCHANGED <<serverVars, cli>>

\* The user edits the job description of the folder; the run of make
\* before it is over and done with.
MkEdit ==
    /\ mk.pc = "idle"
    /\ mk.fs.jd \in {"template", "extracted"}
    /\ mk' = [mk EXCEPT !.fs.jd = "edited", !.before = [mk.fs EXCEPT !.jd = "edited"],
                        !.goal = "", !.out = <<>>, !.status = 0, !.exit = NoExit,
                        !.subExit = NoExit]
    /\ UNCHANGED <<serverVars, cli>>

\* A line of a recipe has ended with status st, not zero.  make gives up;
\* a make that resume-from-pdf runs hands its own status to the shell line
\* that runs it: the make job-from-pdf of line 126 is the head of a
\* pipeline, its status lost, and the make resume of line 133 is followed
\* by line 134.
MkFailed(run, st) ==
    IF run.piped
    THEN [run EXCEPT !.piped = FALSE, !.pc = "resume-from-pdf:127"]
    ELSE IF run.nested
    THEN [run EXCEPT !.subExit = MakeError, !.pc = "resume-from-pdf:134"]
    ELSE [run EXCEPT !.status = st, !.exit = MakeError, !.pc = "idle"]

\* The last line of a recipe has ended with status 0.
MkDone(run) ==
    IF run.piped
    THEN [run EXCEPT !.piped = FALSE, !.pc = "resume-from-pdf:127"]
    ELSE IF run.nested
    THEN [run EXCEPT !.subExit = 0, !.pc = "resume-from-pdf:134"]
    ELSE [run EXCEPT !.status = 0, !.exit = 0, !.pc = "idle"]

\* A line is written to the standard output: the terminal, or the pipe of
\* line 126 for the make job-from-pdf that resume-from-pdf runs.
MkEcho(run, line) ==
    IF run.piped THEN [run EXCEPT !.pipe = Append(@, line)]
    ELSE [run EXCEPT !.out = Append(@, line)]

\* Lines 46-49 of resume: an empty JOB is an error.
ResumeCheckJob ==
    /\ mk.pc = "resume:46"
    /\ mk' = IF mk.JOB = ""
             THEN MkFailed(MkEcho(mk, <<"Error: JOB parameter required">>), ShellExit)
             ELSE [mk EXCEPT !.pc = "resume:50"]
    /\ UNCHANGED <<serverVars, cli>>

\* A recipe that goes on without the folder of the job.
ResumeCheckDirLenient ==
    /\ mk.pc = "resume:50"
    /\ mk' = IF ~mk.fs.dir
             THEN [MkEcho(mk, <<"Error: Job directory does not exist", mk.JOB>>)
                      EXCEPT !.pc = "resume:55"]
             ELSE [mk EXCEPT !.pc = "resume:55"]
    /\ UNCHANGED <<serverVars, cli>>

\* Lines 50-54 of resume: a missing directory jobs/<JOB> is an error.
ResumeCheckDir ==
    /\ mk.pc = "resume:50"
    /\ mk' = IF ~mk.fs.dir
             THEN MkFailed(MkEcho(mk, <<"Error: Job directory does not exist", mk.JOB>>),
                           ShellExit)
             ELSE [mk EXCEPT !.pc = "resume:55"]
    /\ UNCHANGED <<serverVars, cli>>

\* Lines 55-61 of resume: the two echo lines, and the virtual environment
\* set up when there is none; pip may fail.
ResumeVenv ==
    /\ mk.pc = "resume:55"
    /\ \E ok \in BOOLEAN : \E st \in ToolErrors :
          mk' = LET r == MkEcho(mk, <<"Generating resume for job", mk.JOB>>) IN
                IF mk.fs.venv THEN [r EXCEPT !.pc = "resume:62"]
                ELSE IF ok THEN [r EXCEPT !.fs.venv = TRUE, !.pc = "resume:62"]
                ELSE MkFailed([r EXCEPT !.fs.venv = TRUE], st)
    /\ UNCHANGED <<serverVars, cli>>

\* Line 62 of resume: tools/generate.py --job=<JOB>.  It may fail, and it
\* may or may not leave generated/resume.tex.
ResumeGenerate ==
    /\ mk.pc = "resume:62"
    /\ \E ok \in BOOLEAN, wrote \in BOOLEAN : \E st \in ToolErrors :
          mk' = LET r == [MkEcho(mk, <<"generate.py", mk.JOB>>) EXCEPT
                            !.fs.tex = mk.fs.tex \/ (wrote /\ mk.fs.generated)] IN
                IF ok THEN [r EXCEPT !.pc = "resume:63"] ELSE MkFailed(r, st)
    /\ UNCHANGED <<serverVars, cli>>

\* Lines 63-70 of resume: with generated/resume.tex in place latexmk is
\* run and the success reported, whatever latexmk's status; without it
\* the line is an error.
ResumeCompile ==
    /\ mk.pc = "resume:63"
    /\ \E ok \in BOOLEAN :
          mk' = IF mk.fs.tex
                THEN MkDone([mk EXCEPT
                        !.out = @ \o << <<"Compiling LaTeX to PDF...">>,
                                        <<"latexmk", mk.JOB>>,
                                        <<"Resume generated successfully", mk.JOB>> >>,
                        !.fs.pdf = mk.fs.pdf \/ ok])
                ELSE MkFailed(MkEcho(mk, <<"Error: LaTeX file not generated">>),
                              ShellExit)
    /\ UNCHANGED <<serverVars, cli>>

\* Lines 73-76 of job-init: an empty JOB is an error.
JobInitCheckJob ==
    /\ mk.pc = "job-init:73"
    /\ mk' = IF mk.JOB = ""
             THEN MkFailed(MkEcho(mk, <<"Error: JOB parameter required">>), ShellExit)
             ELSE [mk EXCEPT !.pc = "job-init:77"]
    /\ UNCHANGED <<serverVars, cli>>

\* A recipe that copies the templates whether the folder is there or not.
JobInitCreateAlways ==
    /\ mk.pc = "job-init:77"
    /\ mk' = [MkEcho(MkEcho(mk, <<"Creating job folder", mk.JOB>>),
                     <<"Job folder created successfully!">>)
                 EXCEPT !.fs.dir = TRUE, !.fs.generated = TRUE,
                        !.fs.jd = "template", !.fs.pv = "template",
                        !.pc = "job-init:86"]
    /\ UNCHANGED <<serverVars, cli>>

\* Lines 77-85 of job-init: a warning when jobs/<JOB> is there; otherwise
\* mkdir -p jobs/<JOB>/generated and the two templates copied.
JobInitCreate ==
    /\ mk.pc = "job-init:77"
    /\ mk' = IF mk.fs.dir
             THEN [MkEcho(mk, <<"Warning: Job directory already exists", mk.JOB>>)
                      EXCEPT !.pc = "job-init:86"]
             ELSE [MkEcho(MkEcho(mk, <<"Creating job folder", mk.JOB>>),
                          <<"Job folder created successfully!">>)
                      EXCEPT !.fs.dir = TRUE, !.fs.generated = TRUE,
                             !.fs.jd = "template", !.fs.pv = "template",
                             !.pc = "job-init:86"]
    /\ UNCHANGED <<serverVars, cli>>

\* Lines 86-90 of job-init: the next steps are printed.
JobInitNextSteps ==
    /\ mk.pc = "job-init:86"
    /\ mk' = MkDone(MkEcho(mk, <<"Next steps:", mk.JOB>>))
    /\ UNCHANGED <<serverVars, cli>>

\* Lines 98-101 of job-from-pdf: an empty PDF is an error.
JobFromPdfCheckPdf ==
    /\ mk.pc = "job-from-pdf:98"
    /\ mk' = IF mk.PDF = ""
             THEN MkFailed(MkEcho(mk, <<"Error: PDF parameter required">>), ShellExit)
             ELSE [mk EXCEPT !.pc = "job-from-pdf:102"]
    /\ UNCHANGED <<serverVars, cli>>

\* Lines 102-105 of job-from-pdf: a PDF that is no file is an error.
JobFromPdfCheckFile ==
    /\ mk.pc = "job-from-pdf:102"
    /\ mk' = IF mk.PDF = "nofile.pdf"
             THEN MkFailed(MkEcho(mk, <<"Error: PDF file not found", mk.PDF>>), ShellExit)
             ELSE [mk EXCEPT !.pc = "job-from-pdf:106"]
    /\ UNCHANGED <<serverVars, cli>>

\* Lines 106-111 of job-from-pdf: the echo line, and the virtual
\* environment set up when there is none; pip may fail.
JobFromPdfVenv ==
    /\ mk.pc = "job-from-pdf:106"
    /\ \E ok \in BOOLEAN : \E st \in ToolErrors :
          mk' = LET r == MkEcho(mk, <<"Processing PDF job posting", mk.PDF>>) IN
                IF mk.fs.venv THEN [r EXCEPT !.pc = "job-from-pdf:112"]
                ELSE IF ok THEN [r EXCEPT !.fs.venv = TRUE, !.pc = "job-from-pdf:112"]
                ELSE MkFailed([r EXCEPT !.fs.venv = TRUE], st)
    /\ UNCHANGED <<serverVars, cli>>

\* Lines 112-117 of job-from-pdf: the echo line and
\* tools/pdf_job_extractor.py, whose status is that of the line.  The
\* extractor makes the folder of the job and reports it, or ends without
\* one, or fails.
JobFromPdfRun ==
    /\ mk.pc = "job-from-pdf:112"
    /\ \E outcome \in {"created", "nothing", "failed"} : \E st \in ToolErrors :
          mk' = LET r == MkEcho(mk, <<"Extracting job information from PDF using AI...">>) IN
                IF outcome = "created"
                THEN MkDone([MkEcho(r, <<"Job folder created:", JobName>>) EXCEPT
                               !.fs.dir = TRUE, !.fs.generated = TRUE,
                               !.fs.jd = IF mk.fs.dir THEN mk.fs.jd ELSE "extracted",
                               !.fs.pv = IF mk.fs.dir THEN mk.fs.pv ELSE "extracted"])
                ELSE IF outcome = "nothing" THEN MkDone(r)
                ELSE MkFailed(r, st)
    /\ UNCHANGED <<serverVars, cli>>

\* Lines 120-125 of resume-from-pdf: an empty PDF is an error; otherwise
\* the two echo lines.
FromPdfCheckPdf ==
    /\ mk.pc = "resume-from-pdf:120"
    /\ mk' = IF mk.PDF = ""
             THEN MkFailed(MkEcho(mk, <<"Error: PDF parameter required">>), ShellExit)
             ELSE [MkEcho(mk, <<"Step 1: Extracting job information from PDF...">>)
                      EXCEPT !.pc = "resume-from-pdf:126"]
    /\ UNCHANGED <<serverVars, cli>>

\* The name grep, awk and basename take from what make job-from-pdf has
\* written: that of the line "Job folder created:", empty without one.
ExtractedJob(pipe) ==
    IF \E i \in 1..Len(pipe) : pipe[i][1] = "Job folder created:"
    THEN pipe[CHOOSE i \in 1..Len(pipe) : pipe[i][1] = "Job folder created:"][2]
    ELSE ""

\* Line 126 of resume-from-pdf, the head of the shell line of lines
\* 126-134: make job-from-pdf is run with the PDF and the JOB of the
\* target, its output in a pipe.
FromPdfExtract ==
    /\ mk.pc = "resume-from-pdf:126"
    /\ mk' = [mk EXCEPT !.piped = TRUE, !.pipe = <<>>, !.pc = "job-from-pdf:98"]
    /\ UNCHANGED <<serverVars, cli>>

\* Lines 126-133 of resume-from-pdf, after make job-from-pdf: with an
\* empty name the shell exits 1; with a name, make resume JOB=<name> is
\* run.
FromPdfCheckName ==
    /\ mk.pc = "resume-from-pdf:127"
    /\ mk' = LET name == ExtractedJob(mk.pipe)
                 r == [mk EXCEPT !.EXTRACTED_JOB = name, !.pipe = <<>>] IN
             IF name = ""
             THEN MkFailed(MkEcho(r, <<"Failed to extract job from PDF">>), ShellExit)
             ELSE [MkEcho(MkEcho(r, <<"Job extracted", name>>),
                          <<"Step 2: Generating tailored resume...">>)
                      EXCEPT !.JOB = name, !.nested = TRUE, !.pc = "resume:46"]
    /\ UNCHANGED <<serverVars, cli>>

\* Line 134 of resume-from-pdf, the end of the shell line: after make
\* resume, whatever its status, the completion is echoed, and the status
\* of the line is that of the echo.
FromPdfComplete ==
    /\ mk.pc = "resume-from-pdf:134"
    /\ mk' = [MkEcho(mk, <<"Complete! Resume generated from PDF job posting.">>)
                 EXCEPT !.nested = FALSE, !.status = 0, !.exit = 0, !.pc = "idle"]
    /\ UNCHANGED <<serverVars, cli>>

InitMake ==
    /\ mk \in MkStarts
    /\ cli = NotRun
    /\ argv = <<ArgvNone, ArgvNone>>
    /\ ServerInit

NextMake ==
    \/ \E goal \in Goals, job \in JobValues, pdf \in PdfValues : MkStart(goal, job, pdf)
    \/ MkEdit
    \/ ResumeCheckJob
    \/ ResumeCheckDir
    \/ ResumeVenv
    \/ ResumeGenerate
    \/ ResumeCompile
    \/ JobInitCheckJob
    \/ JobInitCreate
    \/ JobInitNextSteps
    \/ JobFromPdfCheckPdf
    \/ JobFromPdfCheckFile
    \/ JobFromPdfVenv
    \/ JobFromPdfRun
    \/ FromPdfCheckPdf
    \/ FromPdfExtract
    \/ FromPdfCheckName
    \/ FromPdfComplete

SpecMake == InitMake /\ [][NextMake]_vars

(***************************************************************************)
(* Properties.                                                             *)
(***************************************************************************)
\* How many lines of the given kind process p has written.
Lines(p, kind) == Cardinality({ i \in 1..Len(out[p]) : out[p][i][1] = kind })

\* How many requests process p has in one of the given states.
InState(p, states) ==
    Cardinality({ c \in Conns : Active(c) /\ conn[c].srv = p /\ conn[c].st \in states })

Logged(c) == conn[c].via = "logMiddleware"

\* C1: a call of logMiddleware's handler whose downstream handler returns
\* normally writes exactly one log line, and writes it after that return:
\* no line while the downstream handler runs, none yet when it has just
\* returned, one once the handler is done; and the request lines of a
\* server are as many as the downstream returns that have been logged.
C1_OneLineAfterReturn ==
    /\ \A c \in Conns : Active(c) /\ Logged(c) =>
          /\ conn[c].st \in {"handling", "returned"} => conn[c].nlog = 0
          /\ conn[c].st = "done" => conn[c].nlog = 1
    /\ \A p \in Procs :
          Lines(p, "Request") + InState(p, {"returned"}) = returned[p]

C1_Witness ==
    \E c \in Conns :
        /\ Active(c) /\ Logged(c) /\ conn[c].st = "done" /\ conn[c].nlog = 1
        /\ conn[c].resp.status = 200
        /\ Lines(conn[c].srv, "Request") = 1

\* C2: whatever its path, a request the server has answered went through
\* logMiddleware and has exactly one log line.
C2_EveryRequestLogged ==
    \A c \in Conns : Active(c) /\ conn[c].st = "done" =>
        Logged(c) /\ conn[c].nlog = 1

\* C3: a request whose downstream handler panicked has no log line: the
\* request lines and the panics of a server never exceed the calls of the
\* handler, a panicked call counting as a panic only.
C3_NoLineOnPanic ==
    /\ \A c \in Conns : Active(c) /\ conn[c].st = "aborted" => conn[c].nlog = 0
    /\ \A p \in Procs :
          Lines(p, "Request") + Lines(p, "Panic")
              + InState(p, {"handling", "returned"}) = entered[p]

C3_Witness ==
    \E c \in Conns :
        /\ Active(c) /\ conn[c].st = "aborted" /\ conn[c].nlog = 0
        /\ Lines(conn[c].srv, "Panic") = 1
        /\ Lines(conn[c].srv, "Request") = 0

Listening(p) == \E l \in listeners : l[2] = p

\* C4: a panic while handling a request does not end the server process:
\* a server that has logged a panic is still running and listening, has no
\* exit status, and accepts a further request whenever a connection is free.
C4_PanicContained ==
    \A p \in Procs : Lines(p, "Panic") > 0 =>
        /\ pc[p] = "serving" /\ exitStatus[p] = NoExit /\ Listening(p)
        /\ (accepted < MaxRequests /\ (\E c \in Conns : ~Active(c)))
              => ENABLED (\E c \in Conns, req \in Requests : Accept(c, p, req))

\* After a panic on one connection the server has served a later request.
C4_Witness ==
    \E p \in Procs :
        /\ Len(out[p]) = 3
        /\ out[p][2] = <<"Panic">>
        /\ out[p][3][1] = "Request"
        /\ pc[p] = "serving"

\* The statuses the file server gives the per-request errors.
ErrorStatuses == {403, 404, 416}

\* Whether process p has written the request line of request r.
HasRequestLine(p, r) ==
    \E i \in 1..Len(out[p]) : \E d \in 0..MaxTime :
        out[p][i] = <<"Request", r.method, r.path, Millis(d)>>

\* C5: a per-request error is answered with an HTTP error status (404 for
\* a missing file, 403 for an unreadable one, 416 for a malformed Range),
\* leaves the server running, and the request is logged like any other:
\* one line with its method and URI.
C5_ErrorsLogged ==
    \A c \in Conns : Active(c) /\ Logged(c) /\ conn[c].st \in {"returned", "done"} =>
        /\ conn[c].req.path = <<"missing">> => conn[c].resp.status = 404
        /\ conn[c].req.path = <<"secret">> => conn[c].resp.status = 403
        /\ conn[c].req.range = "malformed" => conn[c].resp.status = 416
        /\ conn[c].resp.status \in ErrorStatuses =>
              /\ pc[conn[c].srv] = "serving" /\ exitStatus[conn[c].srv] = NoExit
              /\ conn[c].st = "done" =>
                    conn[c].nlog = 1 /\ HasRequestLine(conn[c].srv, conn[c].req)

C5_Witness ==
    \E c \in Conns :
        /\ Active(c) /\ conn[c].st = "done" /\ conn[c].resp.status = 403
        /\ conn[c].nlog = 1 /\ HasRequestLine(conn[c].srv, conn[c].req)
        /\ pc[conn[c].srv] = "serving"

BindFailed(p) == binds[p] > 0 /\ ~Listening(p)

BindErrors == {"unknown port", "permission denied", "address already in use"}

\* C6: a process whose bind failed (invalid port string, privileged port,
\* port in use) has logged the error as its last line and exited at once
\* with a non-zero status; it asked for a listener once, for ":"+port, and
\* it has served no request.
C6_BindFailureFatal ==
    \A p \in Procs :
        /\ binds[p] <= 1
        /\ binds[p] > 0 /\ port[p] \in {PortBad, Port80} => BindFailed(p)
        /\ BindFailed(p) =>
              /\ pc[p] = "exited"
              /\ exitStatus[p] # NoExit /\ exitStatus[p] # 0
              /\ \E e \in BindErrors : out[p][Len(out[p])] = <<"Fatal", e>>
              /\ addr[p] = <<":">> \o port[p]
              /\ entered[p] = 0 /\ Lines(p, "Request") = 0
              /\ \A c \in Conns : Active(c) => conn[c].srv # p

C6_Witness ==
    \E p \in Procs :
        /\ BindFailed(p) /\ exitStatus[p] = 1
        /\ out[p][Len(out[p])] = <<"Fatal", "permission denied">>

\* C7: an instance started on a port another instance has bound fails: it
\* exits with a non-zero status, its last line is the bind error, it holds
\* no listener, and the first instance is still the listener of the port,
\* running and accepting requests.
C7_SecondInstanceFails ==
    \A p, q \in Procs :
        p # q /\ Listening(q) /\ binds[p] > 0 /\ addr[p] = addr[q] =>
            /\ ~Listening(p) /\ pc[p] = "exited"
            /\ exitStatus[p] # NoExit /\ exitStatus[p] # 0
            /\ out[p][Len(out[p])] = <<"Fatal", "address already in use">>
            /\ pc[q] = "serving" /\ exitStatus[q] = NoExit
            /\ listeners = { <<PortOf(addr[q]), q>> }
            /\ (accepted < MaxRequests /\ (\E c \in Conns : ~Active(c)))
                  => ENABLED (\E c \in Conns, req \in Requests : Accept(c, q, req))

\* The second instance has failed on the bound port and the first has
\* answered a request.
C7_Witness ==
    \E p, q \in Procs :
        /\ p # q /\ Listening(q) /\ addr[p] = addr[q]
        /\ out[p][Len(out[p])] = <<"Fatal", "address already in use">>
        /\ \E c \in Conns : Active(c) /\ conn[c].srv = q /\ conn[c].st = "done"
                              /\ conn[c].nlog = 1

\* Whether a command-line token names the flag p: -p, --p, -p=v, --p=v.
NamesP(tok) ==
    \/ tok \in { <<"-", "p">>, <<"-", "-", "p">> }
    \/ Len(tok) >= 3 /\ SubSeq(tok, 1, 3) = <<"-", "p", "=">>
    \/ Len(tok) >= 4 /\ SubSeq(tok, 1, 4) = <<"-", "-", "p", "=">>

\* Whether a token is an option: it begins with a dash and is not "-" or "--".
IsOption(tok) == Len(tok) >= 2 /\ tok[1] = "-" /\ tok # <<"-", "-">>

\* C8: the listen address is ":" followed by the port string; the port is
\* "9000" when the command line has no -p and the value given with -p when
\* -p comes first; an option other than -p is rejected before any bind, and
\* an empty command line is accepted.
C8_ListenAddress ==
    \A p \in Procs : pc[p] # "start" =>
        LET a == argv[p] IN
        /\ binds[p] > 0 => addr[p] = <<":">> \o port[p]
        /\ (\A i \in 1..Len(a) : ~NamesP(a[i])) => port[p] = <<"9", "0", "0", "0">>
        /\ (Len(a) >= 2 /\ a[1] \in { <<"-", "p">>, <<"-", "-", "p">> }
                /\ \A i \in 3..Len(a) : ~NamesP(a[i])) => port[p] = a[2]
        /\ (Len(a) = 1 /\ Len(a[1]) >= 3 /\ SubSeq(a[1], 1, 3) = <<"-", "p", "=">>)
              => port[p] = Drop(a[1], 3)
        /\ (Len(a) >= 1 /\ IsOption(a[1]) /\ ~NamesP(a[1]))
              => pc[p] = "exited" /\ binds[p] = 0 /\ Lines(p, "Usage") = 1
        /\ a = <<>> =>
              /\ Lines(p, "Usage") = 0 /\ Lines(p, "FlagError") = 0
              /\ out[p][1] = <<"Serving", "./docs", <<"9", "0", "0", "0">> >>
              /\ exitStatus[p] # ExitUsage

C8_Witness ==
    \E p \in Procs :
        /\ argv[p] = ArgvP8080 /\ pc[p] = "serving"
        /\ addr[p] = <<":", "8", "0", "8", "0">>
        /\ \E q \in Procs : argv[q] = ArgvUnknown /\ pc[q] = "exited"

\* C9: once main has set it, the configuration of a process is never
\* changed, by no step of any request or process, and the served directory
\* is ./docs whatever the command line.
C9_ConfigFixed ==
    /\ [](\A p \in Procs : pc[p] # "start" => directory[p] = "./docs")
    /\ [][\A p \in Procs : pc[p] # "start" =>
              /\ port'[p] = port[p]
              /\ directory'[p] = directory[p]
              /\ mux'[p] = mux[p]]_vars

\* A server started with a positional argument has answered a request for
\* a path with ".." and still serves ./docs on its port.
C9_Witness ==
    \E p \in Procs :
        /\ argv[p] = ArgvPositional /\ directory[p] = "./docs"
        /\ port[p] = DefaultPort
        /\ \E c \in Conns : Active(c) /\ conn[c].srv = p /\ conn[c].st = "done"
                              /\ conn[c].req.path = <<"..", "secret">>

\* C10 as claimed: a process exits only with a non-zero status after a
\* failed bind (the code has no graceful shutdown, so never with 0).
C10_OnlyBindFailureExits ==
    \A p \in Procs : exitStatus[p] # NoExit =>
        exitStatus[p] # 0 /\ BindFailed(p)

\* C10 as amended: a process exits with 2 when flag parsing rejects its
\* command line, with 0 when that asks for help, and with 1 when its bind
\* fails, and in no other way; once it listens it listens for ever.
C10_ExitStatuses ==
    /\ [](\A p \in Procs : exitStatus[p] # NoExit =>
            \/ /\ exitStatus[p] = 2 /\ binds[p] = 0
               /\ Lines(p, "FlagError") = 1 /\ Lines(p, "Serving") = 0
            \/ /\ exitStatus[p] = 0 /\ binds[p] = 0
               /\ argv[p][1] \in { <<"-", "h">>, <<"-", "h", "e", "l", "p">> }
               /\ out[p] = << <<"Usage">> >>
            \/ /\ exitStatus[p] = 1 /\ BindFailed(p))
    /\ [][\A p \in Procs : Listening(p) =>
              Listening(p)' /\ pc'[p] = "serving" /\ exitStatus'[p] = NoExit]_vars

\* One instance has exited on a rejected command line while the other serves.
C10_Witness ==
    \E p, q \in Procs :
        /\ exitStatus[p] = ExitUsage /\ binds[p] = 0
        /\ Listening(q) /\ accepted = MaxRequests

\* C11: requests are handled concurrently and do not block one another.
\* While a request is blocked in the downstream handler, its server still
\* accepts a new connection whenever one is free, and every other request
\* in flight can take its next step: its handler can return and its log
\* line can be written before the blocked request finishes.
C11_RequestsDoNotBlock ==
    \A c \in Conns : Active(c) /\ conn[c].st = "handling" =>
        /\ (accepted < MaxRequests /\ (\E d \in Conns : ~Active(d)))
              => ENABLED (\E d \in Conns, req \in Requests :
                             Accept(d, conn[c].srv, req))
        /\ \A d \in Conns : d # c /\ Active(d) =>
              /\ conn[d].st = "handling" => ENABLED HandlerReturn(d)
              /\ conn[d].st = "returned" => ENABLED LogRequest(d)

\* A request that arrived later has been handled and logged while an
\* earlier one of the same server is still in its downstream handler.
C11_Witness ==
    \E c, d \in Conns :
        /\ Active(c) /\ Active(d) /\ conn[c].srv = conn[d].srv
        /\ conn[c].seq < conn[d].seq
        /\ conn[c].st = "handling"
        /\ conn[d].st = "done" /\ Logged(d) /\ conn[d].nlog = 1
        /\ Lines(conn[d].srv, "Request") = 1

\* The lines a server writes, whole: the request line of line 15 with its
\* method, URI and duration in milliseconds, the startup line of line 27,
\* the fatal line of line 28, and the lines of flag and net/http.
WholeLine(l) ==
    \/ /\ Len(l) = 4 /\ l[1] = "Request"
       /\ \E r \in Requests : l[2] = r.method /\ l[3] = r.path
       /\ \E d \in 0..MaxTime : l[4] = Millis(d)
    \/ /\ Len(l) = 3 /\ l[1] = "Serving" /\ l[2] = RootDirectory
    \/ /\ Len(l) = 2 /\ l[1] = "Fatal" /\ l[2] \in BindErrors
    \/ /\ Len(l) = 2 /\ l[1] = "FlagError"
    \/ l = <<"Usage">>
    \/ l = <<"Panic">>

\* C12: the log lines of concurrent requests are never interleaved within
\* a line.  Each line reaches the sink in one write, so the sink holds a
\* sequence of whole lines at every moment, whatever the requests in
\* flight; a request about to log has written no part of its line yet.
C12_WholeLines ==
    /\ \A p \in Procs : \A i \in 1..Len(out[p]) : WholeLine(out[p][i])
    /\ \A c \in Conns : Active(c) /\ conn[c].st = "returned" =>
          Lines(conn[c].srv, "Request") + InState(conn[c].srv, {"returned"})
              = returned[conn[c].srv]

\* Two requests of one server were returned at once, each about to write;
\* one has written its line and the other is still about to.
C12_Witness ==
    \E c, d \in Conns :
        /\ c # d /\ Active(c) /\ Active(d) /\ conn[c].srv = conn[d].srv
        /\ conn[c].st = "done" /\ Logged(c) /\ conn[c].nlog = 1
        /\ conn[d].st = "returned"
        /\ conn[d].ret <= conn[c].ret
        /\ Lines(conn[c].srv, "Request") = 1
        /\ WholeLine(out[conn[c].srv][2])

\* C13: the log lines of different requests come in no guaranteed order
\* of arrival.  A request whose handler has returned writes its line
\* without waiting for the requests that arrived before it, and the line is
\* put at the end of the log: the lines follow the order in which the
\* handlers complete, and the line of a later request can precede that of
\* an earlier one.
C13_LogFollowsCompletion ==
    /\ [](\A c \in Conns : Active(c) /\ conn[c].st = "returned"
                => ENABLED LogRequest(c))
    /\ [][\A c \in Conns :
              (Active(c) /\ conn[c].st = "returned" /\ conn'[c].st = "done")
                  => out'[conn[c].srv] = Append(out[conn[c].srv], RequestLine(c))]_vars

\* Two requests of one server, both logged: the line of the one that
\* arrived later stands in the log before the line of the earlier one.
C13_Witness ==
    \E c, d \in Conns :
        /\ Active(c) /\ Active(d) /\ conn[c].srv = conn[d].srv
        /\ conn[c].seq < conn[d].seq
        /\ conn[c].st = "done" /\ conn[d].st = "done"
        /\ conn[c].req # conn[d].req
        /\ Len(out[conn[c].srv]) = 3
        /\ out[conn[c].srv][2] = RequestLine(d)
        /\ out[conn[c].srv][3] = RequestLine(c)

\* C14: the log write is the only side effect of logMiddleware.  The
\* downstream handler gets the request that was received, nothing is
\* written to the response before it runs, and the response the client
\* gets is the one the file server produces for that request when no
\* logger is wrapped around it; writing the log line changes the log of
\* the request's server and nothing else of the request, the response, the
\* other requests or the servers.
C14_LoggerOnlyLogs ==
    /\ [](\A c \in Conns : Active(c) /\ Logged(c) =>
              /\ conn[c].st = "handling" => conn[c].resp = NoResponse
              /\ conn[c].st \in {"returned", "done"}
                    => conn[c].resp = FileServer(conn[c].req))
    /\ [][\A c \in Conns :
              (Active(c) /\ conn[c].st = "returned" /\ conn'[c].st = "done") =>
                  /\ conn'[c].resp = conn[c].resp
                  /\ conn'[c].req = conn[c].req
                  /\ \A d \in Conns : d # c => conn'[d] = conn[d]
                  /\ \A q \in Procs : q # conn[c].srv => out'[q] = out[q]
                  /\ UNCHANGED <<pc, port, directory, mux, addr, binds,
                                 exitStatus, listeners, accepted, now>>]_vars

\* A request with a malformed Range header has been answered by the file
\* server, with its 416, and logged.
C14_Witness ==
    \E c \in Conns :
        /\ Active(c) /\ Logged(c) /\ conn[c].st = "done" /\ conn[c].nlog = 1
        /\ conn[c].req.range = "malformed"
        /\ conn[c].resp = FileServer(conn[c].req)
        /\ conn[c].resp.status = 416

\* C15: the duration a request's line carries is not negative and is the
\* time from the start instant, taken just before the downstream handler
\* is entered, to the instant that handler returned, in milliseconds:
\* that many nanoseconds over the nanoseconds of a millisecond.
C15_DurationIsHandlerTime ==
    /\ [](\A p \in Procs : \A i \in 1..Len(out[p]) :
              out[p][i][1] = "Request" =>
                  out[p][i][4][1] >= 0 /\ out[p][i][4][2] = Millisecond)
    /\ [](\A c \in Conns :
              Active(c) /\ Logged(c) /\ conn[c].st \in {"returned", "done"} =>
                  /\ conn[c].start <= conn[c].ret
                  /\ conn[c].duration = <<conn[c].ret - conn[c].start, Millisecond>>)
    /\ [][\A c \in Conns :
              (Active(c) /\ conn[c].st = "returned" /\ conn'[c].st = "done") =>
                  out'[conn[c].srv][Len(out'[conn[c].srv])] =
                      <<"Request", conn[c].req.method, conn[c].req.path,
                        <<conn[c].ret - conn[c].start, Millisecond>> >>]_vars

\* A request whose handler took time has been logged with that time.
C15_Witness ==
    \E c \in Conns :
        /\ Active(c) /\ Logged(c) /\ conn[c].st = "done" /\ conn[c].nlog = 1
        /\ conn[c].ret > conn[c].start
        /\ \E i \in 1..Len(out[conn[c].srv]) :
              out[conn[c].srv][i] =
                  <<"Request", conn[c].req.method, conn[c].req.path,
                    <<conn[c].ret - conn[c].start, Millisecond>> >>

\* Whether the path of a request has a traversal segment.
Traversal(req) == \E i \in 1..Len(req.path) : req.path[i] = ".."

\* C16: a request whose path has traversal segments ("..") is never
\* answered with content from outside the root directory, and its
\* response has status 404 or 400.
C16_TraversalRejected ==
    \A c \in Conns :
        (Active(c) /\ conn[c].st \in {"returned", "done"} /\ Traversal(conn[c].req)) =>
            /\ conn[c].resp.status \in {404, 400}
            /\ conn[c].resp.body[1] \in {"file", "listing"}
                  => \E e \in DocsTree : e.path = conn[c].resp.body[2]

\* Whether the request on connection c has its response.
Answered(c) == Active(c) /\ conn[c].st \in {"returned", "done"}

\* Whether l lists the entries of directory name, all of them and each
\* once, sorted by name.
SortedListing(l, name) ==
    /\ { l[i] : i \in 1..Len(l) } = Children(name)
    /\ Len(l) = Cardinality(Children(name))
    /\ \A i, j \in 1..Len(l) : i < j => Rank(l[i]) < Rank(l[j])

\* C17 as claimed: every request whose path resolves to a directory under
\* the root is answered with the directory's index page when it has one,
\* and otherwise with a listing of the directory's entries sorted by name.
C17_EveryDirectoryPath ==
    \A c \in Conns :
        LET r == conn[c].req
            name == CleanNames(r.path, <<>>)
        IN  (Answered(c) /\ OpenError(name) = "" /\ KindOf(name) = "dir") =>
                IF Entry(Append(name, IndexPage)) # {}
                THEN conn[c].resp = Response(200, <<"file", Append(name, IndexPage)>>)
                ELSE /\ conn[c].resp.status = 200
                     /\ conn[c].resp.body[1] = "listing"
                     /\ SortedListing(conn[c].resp.body[3], name)

\* C17 as amended: a GET without a Range header whose path is in
\* canonical form and resolves to a directory under the root is answered
\* with a 301 redirect when the path does not end in a slash; with a 304
\* and no body when it carries an If-Modified-Since date that is not
\* before the modification time of the index page, or of the directory
\* when it has no index page; otherwise with the directory's index page
\* when it has one, and otherwise with a listing of the directory's
\* entries, all of them and each once, sorted by name.
C17_IndexOrSortedListing ==
    \A c \in Conns :
        LET r == conn[c].req
            name == CleanNames(r.path, <<>>)
            index == Append(name, IndexPage)
        IN  (/\ Answered(c) /\ r.method = "GET" /\ r.range = "none"
             /\ CleanPath(r.path) = r.path
             /\ OpenError(name) = "" /\ KindOf(name) = "dir") =>
                IF Last(r.path) # ""
                THEN conn[c].resp = Response(301, <<"redirect">>)
                ELSE IF Entry(index) # {}
                THEN IF r.ims # NoHeader /\ Mtime(index) <= r.ims
                     THEN conn[c].resp = Response(304, <<>>)
                     ELSE conn[c].resp = Response(200, <<"file", index>>)
                ELSE IF r.ims # NoHeader /\ Mtime(name) <= r.ims
                THEN conn[c].resp = Response(304, <<>>)
                ELSE /\ conn[c].resp.status = 200
                     /\ conn[c].resp.body[1] = "listing"
                     /\ SortedListing(conn[c].resp.body[3], name)

\* The directory /sub/, which has no index page, has been listed, and the
\* root directory has been answered with its index page.
C17_Witness ==
    \E c, d \in Conns :
        /\ Answered(c) /\ conn[c].req.path = <<"sub", "">>
        /\ conn[c].resp = Response(200, <<"listing", <<"sub">>,
                                          <<"about.html", "img", "page.html">> >>)
        /\ Answered(d) /\ conn[d].req.path = <<"">>
        /\ conn[d].resp = Response(200, <<"file", <<IndexPage>> >>)

\* The responses of the three requests of the scenario, and its log: with
\* every request answered and logged, as many request lines as requests,
\* each with the method and URI of a request of the client.
ScenarioHolds ==
    /\ \A c \in Conns : Answered(c) =>
          /\ conn[c].req = Scenario[1]
                => conn[c].resp = Response(200, <<"file", <<IndexPage>> >>)
          /\ conn[c].req = Scenario[2]
                => conn[c].resp = Response(200, <<"file", <<"sub", "page.html">> >>)
          /\ conn[c].req = Scenario[3] => conn[c].resp.status = 404
    /\ \A p \in Procs :
          /\ (Listening(p) /\ accepted = Len(Scenario)
                 /\ InState(p, {"handling", "returned"}) = 0)
                => Lines(p, "Request") = Len(Scenario)
          /\ \A i \in 1..Len(out[p]) : out[p][i][1] = "Request" =>
                \E r \in SiteRequests : \E d \in 0..MaxTime :
                    out[p][i] = <<"Request", r.method, r.path, Millis(d)>>

\* C18 as claimed: GET /, GET /sub/page.html and GET /missing are answered
\* 200 with index.html, 200 with sub/page.html and 404, and the log then
\* has three request lines, one per request, with its method and URI;
\* and every request whose path names no file or directory is answered 404.
C18_ScenarioAndEveryMissingPath ==
    /\ ScenarioHolds
    /\ \A c \in Conns :
          (Answered(c) /\ OpenError(CleanNames(conn[c].req.path, <<>>)) = "not exist")
              => conn[c].resp.status = 404

\* C18 as amended: the scenario as claimed; and a request whose path is
\* in canonical form and names no file or directory is answered 404
\* unless the path ends in /index.html, which the file server answers
\* with a redirect to the directory before it looks for the file.
C18_ScenarioAndMissingPath ==
    /\ ScenarioHolds
    /\ \A c \in Conns :
          (/\ Answered(c) /\ CleanPath(conn[c].req.path) = conn[c].req.path
           /\ OpenError(CleanNames(conn[c].req.path, <<>>)) = "not exist") =>
              IF Last(conn[c].req.path) = IndexPage
              THEN conn[c].resp.status = 301
              ELSE conn[c].resp.status = 404

\* The three requests of the scenario have been sent in their order and
\* answered one after the other; the log has the startup line and their
\* three lines, and the last has its 404.
C18_Witness ==
    \E p \in Procs : \E c \in Conns :
        /\ accepted = Len(Scenario) /\ Len(out[p]) = Len(Scenario) + 1
        /\ \A i \in 1..Len(Scenario) :
              /\ out[p][i + 1][2] = Scenario[i].method
              /\ out[p][i + 1][3] = Scenario[i].path
        /\ Active(c) /\ conn[c].st = "done" /\ conn[c].seq = Len(Scenario)
        /\ conn[c].req = Scenario[3] /\ conn[c].resp.status = 404

\* Whether the request on connection c is for a file the server can read.
ForFile(c) ==
    LET name == CleanNames(conn[c].req.path, <<>>) IN
    /\ CleanPath(conn[c].req.path) = conn[c].req.path
    /\ Last(conn[c].req.path) \notin {"", IndexPage}
    /\ OpenError(name) = "" /\ KindOf(name) = "file"

\* Whether the request on connection c is logged like any other: it went
\* through logMiddleware and, once done, has its one line, with its
\* method and URI.
LoggedAsAny(c) ==
    /\ Logged(c)
    /\ conn[c].st = "done"
          => conn[c].nlog = 1 /\ HasRequestLine(conn[c].srv, conn[c].req)

\* C19 as claimed: every GET whose path resolves to a file and whose
\* If-Modified-Since date is the file's modification time or a later one
\* is answered 304 with an empty body, and the request is logged.
C19_EveryFileNotModified ==
    \A c \in Conns :
        LET r == conn[c].req
            name == CleanNames(r.path, <<>>)
        IN  (/\ Answered(c) /\ r.method = "GET" /\ r.ims # NoHeader
             /\ OpenError(name) = "" /\ KindOf(name) = "file"
             /\ Mtime(name) <= r.ims) =>
                /\ conn[c].resp = Response(304, <<>>)
                /\ LoggedAsAny(c)

\* C19 as amended: a GET with an If-Modified-Since date whose path is in
\* canonical form and resolves to a file is answered with a 301 redirect,
\* whatever the date, when the path ends in /index.html or in a slash;
\* otherwise it is answered 304 with an empty body when the date is the
\* file's modification time or a later one (and with the file when the
\* date is earlier and there is no Range header); and the request is
\* logged like any other: one line, with its method and URI.
C19_NotModified ==
    \A c \in Conns :
        LET r == conn[c].req
            name == CleanNames(r.path, <<>>)
        IN  (/\ Answered(c) /\ r.method = "GET" /\ r.ims # NoHeader
             /\ CleanPath(r.path) = r.path
             /\ OpenError(name) = "" /\ KindOf(name) = "file") =>
                /\ IF Last(r.path) \in {"", IndexPage}
                   THEN conn[c].resp = Response(301, <<"redirect">>)
                   ELSE /\ Mtime(name) <= r.ims => conn[c].resp = Response(304, <<>>)
                        /\ (Mtime(name) > r.ims /\ r.range = "none")
                              => conn[c].resp = Response(200, <<"file", name>>)
                /\ LoggedAsAny(c)

\* A GET with the very modification time of the file has been answered
\* 304 with no body, and logged.
C19_Witness ==
    \E c \in Conns :
        /\ Active(c) /\ conn[c].st = "done" /\ ForFile(c)
        /\ conn[c].req.method = "GET"
        /\ conn[c].req.ims = Mtime(conn[c].req.path)
        /\ conn[c].resp.status = 304 /\ conn[c].resp.body = <<>>
        /\ conn[c].nlog = 1 /\ HasRequestLine(conn[c].srv, conn[c].req)

\* C20: a request with a method other than GET and HEAD for a file that
\* exists is answered with method-not-allowed or not-found, and never with
\* the content of the file.
C20_OtherMethodsRefused ==
    \A c \in Conns :
        (Answered(c) /\ ForFile(c) /\ conn[c].req.method \notin {"GET", "HEAD"}) =>
            /\ conn[c].resp.status \in {405, 404}
            /\ conn[c].resp.body # <<"file", conn[c].req.path>>

\* C21: the startup line "Serving ./docs on HTTP port: <port>" is logged
\* exactly once, before the bind is attempted and so before any request
\* line: a process that has attempted its bind has the line as the first
\* of its log and nowhere else, and the log of a process whose bind failed
\* is the startup line followed by the bind error.
C21_StartupLineFirst ==
    \A p \in Procs :
        /\ Lines(p, "Serving") <= 1
        /\ pc[p] = "announced" =>
              binds[p] = 0 /\ out[p] = << <<"Serving", RootDirectory, port[p]>> >>
        /\ binds[p] > 0 =>
              /\ Lines(p, "Serving") = 1
              /\ out[p][1] = <<"Serving", RootDirectory, port[p]>>
        /\ Lines(p, "Request") > 0 => out[p][1][1] = "Serving"
        /\ BindFailed(p) =>
              /\ Len(out[p]) = 2
              /\ out[p][1] = <<"Serving", RootDirectory, port[p]>>
              /\ out[p][2][1] = "Fatal"

\* One process has failed to bind, with the startup line before its bind
\* error; the other has its startup line before a request line.
C21_Witness ==
    \E p, q \in Procs :
        /\ BindFailed(p) /\ Len(out[p]) = 2
        /\ out[p][1][1] = "Serving" /\ out[p][2][1] = "Fatal"
        /\ Len(out[q]) = 2
        /\ out[q][1][1] = "Serving" /\ out[q][2][1] = "Request"

\* C22: whatever the interleaving of the requests, the method, URI and
\* start time of a request are its own from its arrival to its log line:
\* no step of any request changes them while the request is in flight,
\* and the line written after a handler's return has the method and the
\* URI, as received, of the request that handler served, with the
\* duration from that request's start.
C22_ContextPerRequest ==
    /\ [][\A c \in Conns :
              (Active(c) /\ conn'[c] # Idle /\ conn'[c].seq = conn[c].seq) =>
                  /\ conn'[c].req = conn[c].req
                  /\ conn'[c].start = conn[c].start
                  /\ conn'[c].srv = conn[c].srv]_vars
    /\ [][\A c \in Conns :
              (Active(c) /\ conn[c].st = "returned" /\ conn'[c].st = "done") =>
                  /\ Len(out'[conn[c].srv]) = Len(out[conn[c].srv]) + 1
                  /\ LET l == out'[conn[c].srv][Len(out'[conn[c].srv])] IN
                     /\ l[2] = conn[c].req.method
                     /\ l[3] = conn[c].req.path
                     /\ l[4] = Millis(conn[c].ret - conn[c].start)]_vars

\* Two requests of one server with different URIs that started at
\* different times were in flight together; both are logged, each line
\* with the URI and the duration of its own request.
C22_Witness ==
    \E c, d \in Conns :
        /\ Active(c) /\ Active(d) /\ conn[c].srv = conn[d].srv
        /\ conn[c].st = "done" /\ conn[d].st = "done"
        /\ Logged(c) /\ Logged(d)
        /\ conn[c].req.path # conn[d].req.path
        /\ conn[c].start < conn[d].start /\ conn[d].start <= conn[c].ret
        /\ conn[c].duration # conn[d].duration
        /\ \E i, j \in 1..Len(out[conn[c].srv]) :
              /\ i # j
              /\ out[conn[c].srv][i] = RequestLine(c)
              /\ out[conn[c].srv][j] = RequestLine(d)

\* The lines of the given kind the compression program has printed.
CliLines(kind) == { i \in 1..Len(cli.out) : cli.out[i][1] = kind }

\* C23: the compression program run with fewer than two arguments, once
\* main runs, prints the usage line and goes on: it reads the arguments
\* that are not there and ends in a panic, having called no step of the
\* pipeline, opened no input, written no output and printed no summary.
C23_UsageThenPanic ==
    (cli.licensed /\ Len(cli.args) < 3) =>
        /\ cli.pc \in {"init", "main", "args", "exited"}
        /\ cli.pc \in {"args", "exited"} =>
              cli.out[1] = <<"Usage", GoIndex(cli.args, 0)>>
        /\ cli.steps = <<>> /\ ~cli.written
        /\ CliLines("Optimization complete") = {} /\ CliLines("Starting") = {}
        /\ cli.pc = "exited" =>
              /\ Len(cli.out) = 2 /\ cli.out[2][1] = "Panic"
              /\ cli.exit = ExitPanic

\* A run with one argument has printed the usage line and then panicked
\* on the second argument.
C23_Witness ==
    /\ cli.pc = "exited" /\ cli.licensed /\ Len(cli.args) = 2
    /\ cli.out = << <<"Usage", Program>>, <<"Panic", "index out of range [2]">> >>
    /\ cli.exit = ExitPanic /\ cli.steps = <<>> /\ ~cli.written

\* The six steps of the compression pipeline, in their order, and the
\* error each one logs when it fails.
Pipeline ==
    <<"stat input", "open input", "parse", "create writer", "write output",
      "stat output">>

PipelineErrors ==
    <<"Error accessing input file", "Error opening input file",
      "Error creating PDF reader", "Error creating PDF writer",
      "Error writing output file", "Error accessing output file">>

\* Whether the i-th step of the pipeline fails in this run.
StepFails(i) ==
    \/ i = 1 /\ cli.input = "missing"
    \/ i = 2 /\ cli.input \in {"missing", "unreadable"}
    \/ i = 3 /\ cli.input \in {"missing", "unreadable", "garbage"}
    \/ i = 4 /\ cli.input # "pdf"
    \/ i = 5 /\ ~cli.outWritable
    \/ i = 6 /\ ~cli.outKept

\* C24: the compression program is a fail-fast pipeline of six steps.  The
\* steps are called in their order, each after the ones before it have
\* succeeded; a step that fails is the last one called, its error is the
\* one logged and the program exits with a status that is not zero; the
\* summary is printed only after all six have succeeded; and the output is
\* written only when the input could be stat'ed, opened and parsed.
C24_FailFastPipeline ==
    LET n == Len(cli.steps) IN
    (cli.licensed /\ Len(cli.args) >= 3) =>
        /\ n <= Len(Pipeline)
        /\ \A i \in 1..n : cli.steps[i] = Pipeline[i]
        /\ \A i \in 1..n : StepFails(i) =>
              /\ i = n /\ cli.pc = "exited" /\ cli.exit = ExitFatal
              /\ cli.out[Len(cli.out)] = <<"Fatal", PipelineErrors[i]>>
              /\ Cardinality(CliLines("Fatal")) = 1
        /\ (\A i \in 1..n : ~StepFails(i)) => CliLines("Fatal") = {}
        /\ (cli.pc = "exited" /\ cli.exit # ExitOK) =>
              cli.exit = ExitFatal /\ n > 0 /\ StepFails(n)
        /\ CliLines("Optimization complete") # {} =>
              /\ cli.steps = Pipeline /\ cli.exit = ExitOK
              /\ \A i \in 1..Len(Pipeline) : ~StepFails(i)
        /\ cli.written => n >= 5 /\ \A i \in 1..5 : ~StepFails(i)

\* A run whose input is no PDF has stopped at the parse, its error logged,
\* with nothing written.
C24_Witness ==
    /\ cli.pc = "exited" /\ cli.licensed /\ Len(cli.args) >= 3
    /\ cli.input = "garbage"
    /\ cli.steps = <<"stat input", "open input", "parse">>
    /\ cli.out[Len(cli.out)] = <<"Fatal", "Error creating PDF reader">>
    /\ cli.exit = ExitFatal /\ ~cli.written

\* Whether the run of make has printed a line of the given kind.
MkPrinted(kind) == \E i \in 1..Len(mk.out) : mk.out[i][1] = kind

\* Whether the run of make of the given goal has ended.
MkEnded(goal) == mk.pc = "idle" /\ mk.goal = goal /\ mk.exit # NoExit

\* C25: the target resume runs the generator and the LaTeX compilation
\* only with a JOB that is not empty and whose directory jobs/<JOB> is
\* there; run with an empty JOB or without the directory it prints its
\* error and ends on "exit 1" (make fails), no file made or changed; and
\* it reports "Resume generated successfully" only with
\* generated/resume.tex in place after the generator has run.
C25_ResumeGuarded ==
    /\ (MkPrinted("generate.py") \/ MkPrinted("latexmk")) =>
          mk.JOB # "" /\ mk.fs.dir
    /\ (MkEnded("resume") /\ (mk.JOB = "" \/ ~mk.before.dir)) =>
          /\ Len(mk.out) = 1
          /\ mk.out[1][1] \in {"Error: JOB parameter required",
                                "Error: Job directory does not exist"}
          /\ mk.status = ShellExit /\ mk.exit = MakeError
          /\ mk.fs = mk.before
    /\ MkPrinted("Resume generated successfully") =>
          /\ mk.fs.tex
          /\ \E i, j \in 1..Len(mk.out) :
                /\ i < j
                /\ mk.out[i][1] = "generate.py"
                /\ mk.out[j][1] = "Resume generated successfully"

\* make resume has run for a job whose folder is there: the generator
\* has run, the LaTeX file is in place and the success is reported.
C25_Witness ==
    /\ MkEnded("resume") /\ mk.JOB = JobName /\ mk.before.dir
    /\ MkPrinted("generate.py") /\ MkPrinted("latexmk")
    /\ MkPrinted("Resume generated successfully")
    /\ mk.fs.tex /\ mk.exit = 0

\* C26: job-init is idempotent on the job folder.  Without jobs/<JOB> it
\* makes jobs/<JOB>/generated and copies the two templates to
\* job_description.md and prompt_vars.yaml; with jobs/<JOB> in place it
\* prints its warning and leaves every file as it was, an edited job
\* description too; with an empty JOB it ends on "exit 1" and makes
\* nothing.
C26_JobInitIdempotent ==
    MkEnded("job-init") =>
        /\ mk.JOB = "" =>
              /\ mk.status = ShellExit /\ mk.exit = MakeError
              /\ mk.fs = mk.before
              /\ mk.out = << <<"Error: JOB parameter required">> >>
        /\ (mk.JOB # "" /\ ~mk.before.dir) =>
              /\ mk.fs = [mk.before EXCEPT !.dir = TRUE, !.generated = TRUE,
                                           !.jd = "template", !.pv = "template"]
              /\ mk.exit = 0 /\ ~MkPrinted("Warning: Job directory already exists")
        /\ (mk.JOB # "" /\ mk.before.dir) =>
              /\ mk.fs = mk.before
              /\ mk.exit = 0
              /\ MkPrinted("Warning: Job directory already exists")
              /\ ~MkPrinted("Creating job folder")

\* job-init has been run again on a folder whose job description was
\* edited: the description is still the edited one.
C26_Witness ==
    /\ MkEnded("job-init") /\ mk.JOB = JobName /\ mk.runs >= 2
    /\ mk.before.dir /\ mk.before.jd = "edited"
    /\ mk.fs.jd = "edited" /\ mk.fs = mk.before
    /\ MkPrinted("Warning: Job directory already exists")

\* C27: in resume-from-pdf step 2 (make resume) runs only after step 1
\* has extracted a job name that is not empty, an empty PDF or an empty
\* name ending the target on "exit 1" before step 2; and the message
\* "Complete! Resume generated from PDF job posting." is printed only when
\* the make resume of step 2 succeeded, the target failing otherwise.
C27_CompleteOnlyOnSuccess ==
    /\ (mk.goal = "resume-from-pdf" /\ MkPrinted("Step 2: Generating tailored resume..."))
          => mk.PDF # "" /\ mk.EXTRACTED_JOB # ""
    /\ (MkEnded("resume-from-pdf") /\ (mk.PDF = "" \/ mk.EXTRACTED_JOB = "")) =>
          /\ mk.status = ShellExit /\ mk.exit = MakeError
          /\ ~MkPrinted("Step 2: Generating tailored resume...")
    /\ MkPrinted("Complete! Resume generated from PDF job posting.") => mk.subExit = 0
    /\ (MkEnded("resume-from-pdf") /\ mk.subExit = MakeError) => mk.exit # 0
====
